---- MODULE Spec2Model ----
(***************************************************************************)
(* Model of ant_simulation.py: ants foraging between NEST and FOOD on a    *)
(* bounded grid, coupled through a pheromone field with deposit and        *)
(* evaporation.                                                            *)
(*                                                                         *)
(* Pheromone intensities are floats in the source.  They are modelled in   *)
(* fixed point: an intensity v is the integer v * Unit, and a product is   *)
(* rounded to the nearest representable value, as float arithmetic does.   *)
(* The module-level configuration (WIDTH, HEIGHT, ANT_COUNT) is state      *)
(* that is drawn in Init and never changes, so one model covers several    *)
(* grids; the source's 20x20 grid with 100 ants is scaled down to the      *)
(* grids of at most MaxCells cells with at most MaxAnts ants, and the      *)
(* default of 200 steps to MaxSteps.                                       *)
(***************************************************************************)
EXTENDS Integers, Sequences, FiniteSets

\* ---- bounds of the model ------------------------------------------------
MaxCells == 4
MaxAnts == 2
MaxSteps == 7
MaxRunSteps == 3
Unit == 50

VARIABLES
    WIDTH, HEIGHT, ANT_COUNT, steps,    \* configuration and simulate's argument
    pheromones,                         \* pheromones[y][x], fixed point
    pos, carrying,                      \* ants[i].pos, ants[i].carrying
    stats,                              \* stats['found_food'], stats['returned']
    tick, idx, pc,                      \* loop variable `step`, position in `for ant in ants`, control
    \* history (observation only, never read by the program's actions)
    nPick, nDrop,                       \* carrying flips false->true / true->false so far
    stepped, evaps,                     \* Ant.step calls per ant, evaporate calls
    who,                                \* id of the ant whose step ran last
    trail,                              \* cells onto which a carrying ant's move has ended
    moves,                              \* per ant: move() calls since its carrying flag last changed
    tickStart, tickDeposits, seen,      \* field at tick start, deposits of this tick, field passed to the last step
    last                                \* what the last transition was

cfgVars == <<WIDTH, HEIGHT, ANT_COUNT, steps>>
progVars == <<pheromones, pos, carrying, stats, tick, idx, pc>>
histVars == <<nPick, nDrop, stepped, evaps, who, trail, moves,
              tickStart, tickDeposits, seen, last>>
vars == <<cfgVars, progVars, histVars>>

\* ---- constants of the program -------------------------------------------
NEST == <<0, 0>>
FOOD == <<WIDTH - 1, HEIGHT - 1>>
\* EVAPORATION = 0.02 as the fraction EVAPORATION_NUM / EVAPORATION_DEN
EVAPORATION_NUM == 2
EVAPORATION_DEN == 100
\* DEPOSIT = 1.0
DEPOSIT == 1 * Unit
\* mutant of DIRECTIONS: a step of two cells to the right
DIRECTIONS_Wide == << <<-1, 0>>, <<2, 0>>, <<0, -1>>, <<0, 1>> >>

\* mutant of DIRECTIONS: the same four directions in another order
DIRECTIONS_Reordered == << <<-1, 0>>, <<0, 1>>, <<0, -1>>, <<1, 0>> >>

\* up, down, left, right as (dx, dy)
DIRECTIONS == << <<-1, 0>>, <<1, 0>>, <<0, -1>>, <<0, 1>> >>

Ants == 0 .. (ANT_COUNT - 1)
Rows == 0 .. (HEIGHT - 1)
Cols == 0 .. (WIDTH - 1)

\* ---- Ant.move -----------------------------------------------------------
\* mutant of InBounds: a cell on which another ant stands is not a candidate
InBoundsUnoccupied(nx, ny) ==
    /\ 0 <= nx /\ nx < WIDTH /\ 0 <= ny /\ ny < HEIGHT
    /\ \A j \in Ants : pos[j] # <<nx, ny>>

\* the test `0 <= nx < WIDTH and 0 <= ny < HEIGHT`
InBounds(nx, ny) == 0 <= nx /\ nx < WIDTH /\ 0 <= ny /\ ny < HEIGHT

\* weight = 1.0 + pheromones[ny][nx]
Weight(ph, c) == 1 * Unit + ph[c[2]][c[1]]

RECURSIVE CandidatesFrom(_, _)
CandidatesFrom(p, k) ==
    IF k > Len(DIRECTIONS) THEN << >>
    ELSE LET nx == p[1] + DIRECTIONS[k][1]
             ny == p[2] + DIRECTIONS[k][2]
         IN  IF InBounds(nx, ny)
             THEN << <<nx, ny>> >> \o CandidatesFrom(p, k + 1)
             ELSE CandidatesFrom(p, k + 1)

\* the list `candidates` built by the first loop of move
Candidates(p) == CandidatesFrom(p, 1)

RECURSIVE Cumulative(_, _, _)
\* the values `cumulative` takes in the second loop of move, one per
\* candidate: acc is the sum so far, cs the candidates still to add
Cumulative(ph, cs, acc) ==
    IF cs = << >> THEN << >>
    ELSE << acc + Weight(ph, Head(cs)) >>
             \o Cumulative(ph, Tail(cs), acc + Weight(ph, Head(cs)))

\* total = sum(weights)
Total(ph, p) ==
    LET cum == Cumulative(ph, Candidates(p), 0)
    IN  IF cum = << >> THEN 0 ELSE cum[Len(cum)]

\* r = random.uniform(0, total): any value between 0 and total
Draws(ph, p) == 0 .. Total(ph, p)

RECURSIVE SelectStrict(_, _, _, _, _)
\* mutant of Select: the test r < cumulative instead of r <= cumulative
SelectStrict(cs, cum, r, k, p) ==
    IF k > Len(cs) THEN p
    ELSE IF r < cum[k] THEN cs[k]
         ELSE SelectStrict(cs, cum, r, k + 1, p)

RECURSIVE Select(_, _, _, _, _)
\* the second loop of move: the first candidate with r <= cumulative,
\* and the position unchanged when the loop ends without a break
Select(cs, cum, r, k, p) ==
    IF k > Len(cs) THEN p
    ELSE IF r <= cum[k] THEN cs[k]
         ELSE Select(cs, cum, r, k + 1, p)

\* mutant of move: one of the four directions, without the bounds test
moveUnchecked(p, ph, r) ==
    LET d == DIRECTIONS[1 + (r % Len(DIRECTIONS))]
    IN  <<p[1] + d[1], p[2] + d[2]>>

\* Ant.move: the position after the move, for the draw r
move(p, ph, r) ==
    LET cs == Candidates(p)
    IN  Select(cs, Cumulative(ph, cs, 0), r, 1, p)

\* ---- Ant.step -----------------------------------------------------------
\* mutant of Moves: picking up and dropping cost no tick of their own
MovesAlways(p, c) == TRUE

\* does step call move for an ant at p with flag c?
Moves(p, c) == IF c THEN p # NEST ELSE p # FOOD

\* mutant of stepCarrying: the carrying branch tests FOOD instead of NEST
stepCarryingAtFood(p, c) ==
    IF ~c THEN (p = FOOD) ELSE ~(p = FOOD)

\* the carrying flag after step
stepCarrying(p, c) ==
    IF ~c THEN (p = FOOD) ELSE ~(p = NEST)

\* mutant of stepPos: the ant moves in every step, also when it picks up
\* or drops
stepPosAlways(p, c, ph, r) == move(p, ph, r)

\* the position after step, for the draw r
stepPos(p, c, ph, r) == IF Moves(p, c) THEN move(p, ph, r) ELSE p

\* pheromones[y][x] += DEPOSIT
Deposit(ph, c) ==
    [ph EXCEPT ![c[2]] = [@ EXCEPT ![c[1]] = @ + DEPOSIT]]

\* mutant of stepField: the deposit is made at the position before the move
stepFieldAtOld(p, c, ph, q) ==
    IF c /\ p # NEST THEN Deposit(ph, p) ELSE ph

\* mutant of stepField: a deposit after every move, carrying or not
stepFieldAlways(p, c, ph, q) ==
    IF Moves(p, c) THEN Deposit(ph, q) ELSE ph

\* the field after step, q being the ant's position after it: a deposit
\* at q when a carrying ant has moved
stepField(p, c, ph, q) ==
    IF c /\ p # NEST THEN Deposit(ph, q) ELSE ph

\* the draws step can make: one for the move, none without a move
StepDraws(p, c, ph) == IF Moves(p, c) THEN Draws(ph, p) ELSE {0}

\* Ant.step for an ant at p with flag c, on field ph, for the draw r:
\* the ant's position and flag and the field after the step
step(p, c, ph, r) ==
    LET q == stepPos(p, c, ph, r)
    IN  [pos |-> q,
         carrying |-> stepCarrying(p, c),
         pheromones |-> stepField(p, c, ph, q)]

\* ---- evaporate ----------------------------------------------------------
\* mutant of Decay: the factor 1.0 + EVAPORATION
DecayGrow(v) ==
    (2 * v * (EVAPORATION_DEN + EVAPORATION_NUM) + EVAPORATION_DEN)
        \div (2 * EVAPORATION_DEN)

\* mutant of Decay: `-=` instead of `*=`
DecaySubtract(v) ==
    v - (Unit * (EVAPORATION_DEN - EVAPORATION_NUM)) \div EVAPORATION_DEN

\* v * (1.0 - EVAPORATION), rounded to the nearest representable value
Decay(v) ==
    (2 * v * (EVAPORATION_DEN - EVAPORATION_NUM) + EVAPORATION_DEN)
        \div (2 * EVAPORATION_DEN)

evaporate(ph) == [y \in Rows |-> [x \in Cols |-> Decay(ph[y][x])]]

\* ---- simulate -----------------------------------------------------------
\* mutant of FoundFoodEvent: the event is counted when the food is picked up
FoundFoodAtPickup(before, after, c) == c /\ after = FOOD /\ before = FOOD

\* the two tests that classify the events of one ant's step
FoundFoodEvent(before, after, c) == ~c /\ after = FOOD /\ before # FOOD

\* mutant of ReturnedEvent: every arrival at NEST counts, carrying or not
ReturnedEventNoCarry(before, after, c) == after = NEST /\ before # NEST

ReturnedEvent(before, after, c) == c /\ after = NEST /\ before # NEST

\* mutant of Tally: the second increment is not guarded by its own test,
\* so an arrival at FOOD counts in both counters
TallyBoth(st, before, after, c) ==
    [found_food |-> st.found_food +
         (IF FoundFoodEvent(before, after, c) THEN 1 ELSE 0),
     returned |-> st.returned +
         (IF FoundFoodEvent(before, after, c) \/ ReturnedEvent(before, after, c)
          THEN 1 ELSE 0)]

\* the two `if ...: stats[...] += 1` of simulate, after one ant's step
Tally(st, before, after, c) ==
    [found_food |-> st.found_food +
         (IF FoundFoodEvent(before, after, c) THEN 1 ELSE 0),
     returned |-> st.returned +
         (IF ReturnedEvent(before, after, c) THEN 1 ELSE 0)]

\* the configurations that, like the source's constants, have a grid of at
\* least two cells (so NEST # FOOD and both in the grid) and no negative
\* number of ants
ValidConfig(w, h, a) ==
    /\ w >= 1 /\ h >= 1 /\ w * h >= 2
    /\ a >= 0

\* the configurations <<WIDTH, HEIGHT, ANT_COUNT>> within the bounds
Configs ==
    {c \in (0 .. MaxCells) \X (0 .. MaxCells) \X (0 .. MaxAnts) :
        c[1] * c[2] <= MaxCells}

\* the state simulate builds before its loop, for a configuration
Start(w, h, a, n) ==
    /\ WIDTH = w /\ HEIGHT = h /\ ANT_COUNT = a /\ steps = n
    /\ pheromones = [y \in 0 .. (h - 1) |-> [x \in 0 .. (w - 1) |-> 0]]
    /\ pos = [i \in 0 .. (a - 1) |-> NEST]
    /\ carrying = [i \in 0 .. (a - 1) |-> FALSE]
    /\ stats = [found_food |-> 0, returned |-> 0]
    /\ tick = 0 /\ idx = 0 /\ pc = "loop"
    /\ nPick = 0 /\ nDrop = 0
    /\ stepped = [i \in 0 .. (a - 1) |-> 0]
    /\ evaps = 0
    /\ who = 0
    /\ trail = {}
    /\ moves = [i \in 0 .. (a - 1) |-> 0]
    /\ tickStart = pheromones
    /\ tickDeposits = << >>
    /\ seen = pheromones
    /\ last = "init"

Init ==
    \E c \in Configs, n \in {MaxSteps} :
        /\ ValidConfig(c[1], c[2], c[3])
        /\ Start(c[1], c[2], c[3], n)

\* mutant of AntsLeft: the loop stops one ant early
AntsLeftButOne == idx < ANT_COUNT - 1

\* mutant of CurrentAnt: the list of ants is walked from its end
CurrentAntReversed == ANT_COUNT - 1 - idx

\* `for ant in ants`: is there an ant left in this tick, and which one
AntsLeft == idx < ANT_COUNT

\* ants = [Ant(i) for i in range(ANT_COUNT)]: the ant at position idx has id idx
CurrentAnt == idx

\* one iteration of `for ant in ants`: ant.step and the two counters
AntStep ==
    /\ pc = "loop" /\ tick < steps /\ AntsLeft
    /\ LET i == CurrentAnt
           p == pos[i]
           c == carrying[i]
       IN  \E res \in {step(p, c, pheromones, r) : r \in StepDraws(p, c, pheromones)} :
             LET after == res.pos
                 c2 == res.carrying
             IN  /\ pos' = [pos EXCEPT ![i] = after]
                 /\ carrying' = [carrying EXCEPT ![i] = c2]
                 /\ pheromones' = res.pheromones
                 /\ stats' = Tally(stats, p, after, c2)
                 /\ idx' = idx + 1
                 /\ nPick' = nPick + (IF ~c /\ c2 THEN 1 ELSE 0)
                 /\ nDrop' = nDrop + (IF c /\ ~c2 THEN 1 ELSE 0)
                 /\ stepped' = [stepped EXCEPT ![i] = @ + 1]
                 /\ who' = i
                 /\ trail' = IF c /\ Moves(p, c) THEN trail \cup {after} ELSE trail
                 /\ moves' = [moves EXCEPT ![i] = IF c2 # c THEN 0
                                                  ELSE IF Moves(p, c) THEN @ + 1 ELSE @]
                 /\ tickDeposits' =
                      IF pheromones' # pheromones
                      THEN Append(tickDeposits, <<i, after>>)
                      ELSE tickDeposits
                 /\ seen' = pheromones
                 /\ last' = IF Moves(p, c) THEN "move" ELSE "flip"
    /\ UNCHANGED <<cfgVars, tick, pc, evaps, tickStart>>

\* the end of one iteration of `for step in range(steps)`
Evaporate ==
    /\ pc = "loop" /\ tick < steps /\ ~AntsLeft
    /\ pheromones' = evaporate(pheromones)
    /\ tick' = tick + 1
    /\ idx' = 0
    /\ evaps' = evaps + 1
    /\ tickStart' = pheromones'
    /\ tickDeposits' = << >>
    /\ last' = "evaporate"
    /\ UNCHANGED <<cfgVars, pos, carrying, stats, pc,
                   nPick, nDrop, stepped, who, trail, moves, seen>>

\* the three print calls after the loop
Finish ==
    /\ pc = "loop" /\ tick = steps
    /\ pc' = "done"
    /\ last' = "finish"
    /\ UNCHANGED <<cfgVars, pheromones, pos, carrying, stats, tick, idx,
                   nPick, nDrop, stepped, evaps, who, trail, moves,
                   tickStart, tickDeposits, seen>>

Next == AntStep \/ Evaporate \/ Finish

Spec == Init /\ [][Next]_vars

\* simulate started with any configuration, the ones section 7 of the
\* specification calls configuration errors included
InitAny ==
    \E c \in Configs, n \in {MaxSteps} : Start(c[1], c[2], c[3], n)

SpecAny == InitAny /\ [][Next]_vars

\* simulate(steps) for every step count up to MaxRunSteps; the program is
\* one sequential loop, so a step that can be taken is taken
InitRuns ==
    \E c \in Configs, n \in 0 .. MaxRunSteps :
        /\ ValidConfig(c[1], c[2], c[3])
        /\ Start(c[1], c[2], c[3], n)

SpecRuns == InitRuns /\ [][Next]_vars /\ WF_vars(Next)

\* ---- helpers of the properties -----------------------------------------
\* the ant whose step is the transition, if the transition is a step
Stepping(i) == i \in Ants /\ stepped'[i] # stepped[i]

AbsDiff(a, b) == IF a >= b THEN a - b ELSE b - a

\* the cells of the grid at distance 1 of p, stated without DIRECTIONS
Neighbours(p) ==
    {q \in Cols \X Rows : AbsDiff(q[1], p[1]) + AbsDiff(q[2], p[2]) = 1}

SearchingAtFood == {i \in Ants : ~carrying[i] /\ pos[i] = FOOD}
ReturningAtNest == {i \in Ants : carrying[i] /\ pos[i] = NEST}

\* ---- C1 ----------------------------------------------------------------
\* C1: in every reachable state every ant's position (x, y) satisfies
\* 0 <= x < WIDTH and 0 <= y < HEIGHT.
C1_BoundsInvariant ==
    \A i \in Ants :
        /\ 0 <= pos[i][1] /\ pos[i][1] < WIDTH
        /\ 0 <= pos[i][2] /\ pos[i][2] < HEIGHT

\* an ant has walked to the far corner of a grid with two rows and columns
C1_Witness ==
    /\ WIDTH >= 2 /\ HEIGHT >= 2
    /\ \E i \in Ants : pos[i] = <<WIDTH - 1, HEIGHT - 1>> /\ stepped[i] >= 2

\* ---- C2 ----------------------------------------------------------------
\* C2: the carrying flag is a boolean; it changes from false to true only
\* in a step the ant starts at FOOD and from true to false only in a step
\* the ant starts at NEST; in every other step it is unchanged.
C2_TransitionsOnlyAtFoodAndNest ==
    /\ [](\A i \in Ants : carrying[i] \in BOOLEAN)
    /\ [][\A i \in Ants :
            /\ (~carrying[i] /\ carrying'[i]) => pos[i] = FOOD
            /\ (carrying[i] /\ ~carrying'[i]) => pos[i] = NEST
            /\ (Stepping(i) /\ ~carrying[i] /\ pos[i] # FOOD) => ~carrying'[i]
            /\ (Stepping(i) /\ carrying[i] /\ pos[i] # NEST) => carrying'[i]]_vars

\* both transitions have happened, and the ant that dropped has moved on
C2_Witness == nPick >= 1 /\ nDrop >= 1 /\ last = "move"

C4_NoDepositWhileSearching ==
    /\ [](\A y \in Rows, x \in Cols :
            <<x, y>> \notin trail => pheromones[y][x] = 0)
    /\ [][\A y \in Rows, x \in Cols :
            pheromones'[y][x] > pheromones[y][x] =>
                \E i \in Ants : /\ Stepping(i)
                                 /\ carrying[i] /\ carrying'[i]
                                 /\ pos'[i] = <<x, y>>]_vars
    /\ [][\A i \in Ants :
            (Stepping(i) /\ ~carrying[i]) => pheromones' = pheromones]_vars

\* a searching ant has just moved over a field that carries pheromone
C4_Witness ==
    /\ last = "move" /\ who \in Ants /\ ~carrying[who]
    /\ \E y \in Rows, x \in Cols : pheromones[y][x] > 0

\* ---- C5 ----------------------------------------------------------------
\* C5: evaporation runs once per tick, on every cell, after every ant has
\* completed its step of that tick and before any ant's step of the next
\* tick; no ant acts while the field evaporates.
C5_EvaporationOrdering ==
    /\ [](evaps = tick)
    /\ [][evaps' # evaps =>
            /\ evaps' = evaps + 1
            /\ \A i \in Ants : stepped[i] = evaps + 1
            /\ UNCHANGED <<pos, carrying, stepped, stats>>
            /\ \A y \in Rows, x \in Cols :
                   pheromones'[y][x] = Decay(pheromones[y][x])]_vars
    /\ [][\A i \in Ants : Stepping(i) =>
            /\ stepped[i] = evaps
            /\ evaps' = evaps]_vars

\* a field that carries pheromone has just evaporated for the third time,
\* after two ants have stepped
C5_Witness ==
    /\ last = "evaporate" /\ evaps >= 3 /\ ANT_COUNT >= 2
    /\ \E y \in Rows, x \in Cols : pheromones[y][x] > 0

\* ---- C6 ----------------------------------------------------------------
RECURSIVE WithDeposits(_, _, _)
\* the field f plus the deposits of the log made by ants with id < bound
WithDeposits(f, log, bound) ==
    IF log = << >> THEN f
    ELSE LET d == Head(log)
             g == IF d[1] < bound
                  THEN [f EXCEPT ![d[2][2]] =
                          [@ EXCEPT ![d[2][1]] = @ + DEPOSIT]]
                  ELSE f
         IN  WithDeposits(g, Tail(log), bound)

\* C6: within a tick the ants step one after the other in ascending id
\* order, each once; the field passed to the step of ant j is the field
\* at the start of the tick plus the deposits made in this tick by the
\* ants with id < j, and none of the others.
C6_SequentialVisibility ==
    /\ [](\A i \in Ants : stepped[i] = tick + (IF i < idx THEN 1 ELSE 0))
    /\ [](\A k \in 1 .. Len(tickDeposits) :
            /\ tickDeposits[k][1] < idx
            /\ k > 1 => tickDeposits[k - 1][1] < tickDeposits[k][1])
    /\ [](idx > 0 =>
            /\ who = idx - 1
            /\ seen = WithDeposits(tickStart, tickDeposits, who))
    /\ [](pheromones = WithDeposits(tickStart, tickDeposits, ANT_COUNT))

\* ant 1 has stepped on a field that already held the deposit ant 0 made
\* in the same tick, and has deposited too
C6_Witness ==
    /\ idx = 2 /\ Len(tickDeposits) = 2
    /\ seen # tickStart /\ seen # pheromones

\* ---- C7 ----------------------------------------------------------------
\* the 3x1 grid with one ant: NEST = (0,0), FOOD = (2,0)
Corridor == WIDTH = 3 /\ HEIGHT = 1 /\ ANT_COUNT = 1

\* C7 as stated: in the corridor the ant is at FOOD after 2 ticks of
\* movement from NEST, and back at NEST after 2 more ticks of movement.
C7_ExactlyTwoMoves ==
    Corridor =>
        \A i \in Ants :
            /\ (~carrying[i] /\ moves[i] >= 2) => pos[i] = FOOD
            /\ (carrying[i] /\ moves[i] >= 2) => pos[i] = NEST

\* C7 amended: in the corridor the ant reaches FOOD after at least 2 ticks
\* of movement from NEST and returns to NEST after at least 2 more ticks of
\* movement; every move takes it to an adjacent cell, forwards or back.
C7_AtLeastTwoMoves ==
    /\ [](Corridor =>
            \A i \in Ants :
                /\ (~carrying[i] /\ pos[i] = FOOD) => moves[i] >= 2
                /\ (carrying[i] /\ pos[i] = NEST) => moves[i] >= 2)
    /\ [][Corridor =>
            \A i \in Ants : (Stepping(i) /\ pos'[i] # pos[i]) =>
                AbsDiff(pos'[i][1], pos[i][1]) = 1]_vars

\* the ant is back at NEST with the food after exactly 2 ticks of movement
C7_Witness ==
    /\ Corridor
    /\ carrying[0] /\ pos[0] = NEST /\ moves[0] = 2 /\ nPick = 1

\* ---- C8 ----------------------------------------------------------------
\* C8: with a configuration that is an error (WIDTH or HEIGHT <= 0, NEST or
\* FOOD outside the grid, a 1x1 grid) simulate steps no ant, runs no tick
\* and produces no report.
C8_InvalidConfigRejected ==
    ~ValidConfig(WIDTH, HEIGHT, ANT_COUNT) =>
        /\ \A i \in Ants : stepped[i] = 0
        /\ evaps = 0
        /\ pc # "done"

\* ---- C10 ---------------------------------------------------------------
\* C10: on a grid of at least 2 cells, whenever an ant is about to make a
\* weighted random move, the positions the move can end at, over all
\* draws, are exactly the in-bounds orthogonal neighbours of the ant's
\* position, and every move that is made ends at one of them.
C10_MoveReachesExactlyNeighbours ==
    /\ []((/\ WIDTH * HEIGHT >= 2
           /\ pc = "loop" /\ tick < steps /\ idx < ANT_COUNT
           /\ Moves(pos[idx], carrying[idx])) =>
            {move(pos[idx], pheromones, r) : r \in Draws(pheromones, pos[idx])}
                = Neighbours(pos[idx]))
    /\ [][\A i \in Ants : (Stepping(i) /\ last' = "move") =>
            (pos'[i] \in Neighbours(pos[i]) /\ pos'[i] # pos[i])]_vars

\* an ant with two neighbours of different intensity has just moved
C10_Witness ==
    /\ last = "move" /\ who \in Ants
    /\ \E p \in Neighbours(pos[who]), q \in Neighbours(pos[who]) :
          pheromones[p[2]][p[1]] > pheromones[q[2]][q[1]]

\* ---- C11 ---------------------------------------------------------------
\* C11: both counters are 0 before any tick runs; a step adds at most one
\* event, to one counter only, and nothing else changes the counters; so
\* after T ticks with A ants found_food <= A*T and returned <= A*T.
C11_EventCountBound ==
    /\ []((tick = 0 /\ idx = 0) =>
            (stats.found_food = 0 /\ stats.returned = 0))
    /\ [](/\ stats.found_food + stats.returned <= ANT_COUNT * tick + idx
          /\ (idx = 0 =>
                /\ stats.found_food <= ANT_COUNT * tick
                /\ stats.returned <= ANT_COUNT * tick))
    /\ [][/\ stats'.found_food >= stats.found_food
           /\ stats'.returned >= stats.returned
           /\ (stats'.found_food - stats.found_food)
                + (stats'.returned - stats.returned) <= 1
           /\ stats' # stats => \E i \in Ants : Stepping(i)]_vars

\* two ants have each reached FOOD and one of the counters of a later
\* tick has moved as well
C11_Witness ==
    /\ ANT_COUNT = 2 /\ idx = 0
    /\ stats.found_food >= 2 /\ stats.returned >= 1

\* ---- C12 ---------------------------------------------------------------
\* a deposit of this tick has landed on the cell (x, y)
DepositedThisTick(x, y) ==
    \E k \in 1 .. Len(tickDeposits) : tickDeposits[k][2] = <<x, y>>

\* the transition is an evaporation that follows an earlier one
SecondEvaporation == evaps >= 1 /\ evaps' = evaps + 1

C13_NonNegative ==
    \A y \in Rows, x \in Cols : pheromones[y][x] >= 0

\* a cell that has received two deposits has evaporated, next to a cell
\* that is still at 0
C13_Witness ==
    /\ last = "evaporate"
    /\ \E y \in Rows, x \in Cols : pheromones[y][x] > DEPOSIT
    /\ \E y \in Rows, x \in Cols : pheromones[y][x] = 0

\* ---- C14 ---------------------------------------------------------------
\* C14: for every step count and every number of ants, 0 included,
\* simulate finishes, and it finishes after exactly `steps` ticks: every
\* ant has stepped `steps` times and the field has evaporated `steps`
\* times; without ants both counters stay 0.
C14_Terminates ==
    /\ <>(pc = "done")
    /\ [](pc = "done" =>
            /\ tick = steps /\ evaps = steps
            /\ \A i \in Ants : stepped[i] = steps)
    /\ [](ANT_COUNT = 0 => (stats.found_food = 0 /\ stats.returned = 0))

\* a run of the largest step count with ants has finished after an ant
\* reached FOOD
C14_Witness ==
    /\ pc = "done" /\ steps = MaxRunSteps
    /\ ANT_COUNT >= 1 /\ stats.found_food >= 1

\* ---- C15 ---------------------------------------------------------------
\* C15: the step of a carrying ant that is not at NEST moves the ant and
\* adds exactly DEPOSIT to the cell of its new position, NEST included;
\* the cell it left and every other cell are unchanged.
C15_DepositAtNewPositionOnly ==
    [][\A i \in Ants :
        (Stepping(i) /\ carrying[i] /\ pos[i] # NEST) =>
            /\ pos'[i] # pos[i]
            /\ carrying'[i]
            /\ \A y \in Rows, x \in Cols :
                  pheromones'[y][x] =
                      pheromones[y][x] +
                          (IF <<x, y>> = pos'[i] THEN DEPOSIT ELSE 0)]_vars

\* a carrying ant has just moved onto NEST, and NEST holds its deposit
C15_Witness ==
    /\ last = "move" /\ who \in Ants
    /\ carrying[who] /\ pos[who] = NEST
    /\ pheromones[0][0] >= DEPOSIT

\* ---- C16 ---------------------------------------------------------------
\* C16: the step of a searching ant at FOOD and the step of a carrying ant
\* at NEST flip carrying and leave the ant's position and the whole field
\* unchanged.
C16_TransitionStepsOnlyFlip ==
    [][\A i \in Ants :
        (Stepping(i) /\ (\/ (~carrying[i] /\ pos[i] = FOOD)
                         \/ (carrying[i] /\ pos[i] = NEST))) =>
            /\ carrying'[i] = ~carrying[i]
            /\ pos'[i] = pos[i]
            /\ pheromones' = pheromones]_vars

\* an ant has just dropped its food at NEST, on a field with pheromone
C16_Witness ==
    /\ last = "flip" /\ who \in Ants
    /\ ~carrying[who] /\ pos[who] = NEST /\ nDrop >= 1
    /\ \E y \in Rows, x \in Cols : pheromones[y][x] > 0

\* ---- C17 ---------------------------------------------------------------
\* an ant is about to be stepped
StepDue == pc = "loop" /\ tick < steps /\ idx < ANT_COUNT

\* what a step can make of an ant at p with flag c on the field ph, stated
\* from these three alone
RefOutcomes(p, c, ph) ==
    IF ~c /\ p = FOOD THEN {[pos |-> p, carrying |-> TRUE, pheromones |-> ph]}
    ELSE IF c /\ p = NEST
    THEN {[pos |-> p, carrying |-> FALSE, pheromones |-> ph]}
    ELSE IF ~c
    THEN {[pos |-> q, carrying |-> FALSE, pheromones |-> ph] :
             q \in Neighbours(p)}
    ELSE {[pos |-> q, carrying |-> TRUE,
           pheromones |-> [ph EXCEPT ![q[2]][q[1]] = @ + DEPOSIT]] :
             q \in Neighbours(p)}

\* C17: the step of ant i leaves the position and the flag of every other
\* ant unchanged, and what it can do to ant i and to the field is a
\* function of ant i's position and flag and of the field alone, whatever
\* the other ants' positions and flags are.
C17_AgentIsolation ==
    /\ [](StepDue =>
            {step(pos[idx], carrying[idx], pheromones, r) :
                 r \in StepDraws(pos[idx], carrying[idx], pheromones)}
                = RefOutcomes(pos[idx], carrying[idx], pheromones))
    /\ [][\A i \in Ants : Stepping(i) =>
            /\ \A j \in Ants \ {i} :
                   pos'[j] = pos[j] /\ carrying'[j] = carrying[j]
            /\ [pos |-> pos'[i], carrying |-> carrying'[i],
                 pheromones |-> pheromones']
                   \in RefOutcomes(pos[i], carrying[i], pheromones)]_vars

\* an ant is about to move while another ant, in the other state, stands
\* on a cell the first can move to
C17_Witness ==
    /\ StepDue /\ Moves(pos[idx], carrying[idx])
    /\ \E j \in Ants \ {idx} :
          /\ carrying[j] # carrying[idx]
          /\ pos[j] \in Neighbours(pos[idx])

\* ---- C18 ---------------------------------------------------------------
InGrid(q) == q[1] \in Cols /\ q[2] \in Rows

\* the in-bounds neighbours of p in the order left, right, up, down
RefCandidates(p) ==
    SelectSeq(<< <<p[1] - 1, p[2]>>, <<p[1] + 1, p[2]>>,
                 <<p[1], p[2] - 1>>, <<p[1], p[2] + 1>> >>, InGrid)

\* weighted choice: the first candidate whose prefix sum of the weights
\* 1 + intensity reaches r
RefChoice(p, ph, r) ==
    LET cs == RefCandidates(p)
        pre[k \in 0 .. Len(cs)] ==
            IF k = 0 THEN 0
            ELSE pre[k - 1] + 1 * Unit + ph[cs[k][2]][cs[k][1]]
        hits == {k \in 1 .. Len(cs) : pre[k] >= r}
    IN  IF hits = {} THEN p
        ELSE cs[CHOOSE k \in hits : \A j \in hits : k <= j]

RefTotal(p, ph) ==
    LET cs == RefCandidates(p)
        pre[k \in 0 .. Len(cs)] ==
            IF k = 0 THEN 0
            ELSE pre[k - 1] + 1 * Unit + ph[cs[k][2]][cs[k][1]]
    IN  pre[Len(cs)]

\* C18: for the position of an ant about to move, the field and every
\* draw r from 0 to the sum of the weights, move returns what the
\* reference weighted choice returns, and the draws range over 0 .. sum.
C18_MoveIsWeightedChoice ==
    (StepDue /\ Moves(pos[idx], carrying[idx])) =>
        /\ Draws(pheromones, pos[idx]) = 0 .. RefTotal(pos[idx], pheromones)
        /\ \A r \in Draws(pheromones, pos[idx]) :
              move(pos[idx], pheromones, r) = RefChoice(pos[idx], pheromones, r)

\* an ant with two candidates is about to move, the first candidate
\* carrying pheromone
C18_Witness ==
    /\ StepDue /\ Moves(pos[idx], carrying[idx])
    /\ Len(RefCandidates(pos[idx])) >= 2
    /\ LET q == RefCandidates(pos[idx])[1] IN pheromones[q[2]][q[1]] > 0

\* ---- C19 ---------------------------------------------------------------
\* the ants that have found food and have not yet brought it to the nest
Underway ==
    {i \in Ants : (~carrying[i] /\ pos[i] = FOOD) \/ (carrying[i] /\ pos[i] # NEST)}

\* C19: in every state of a run that starts with all ants at NEST, not
\* carrying, and NEST # FOOD, found_food - returned is the number of ants
\* that are searching at FOOD or carrying away from NEST; so returned never
\* exceeds found_food and the difference never exceeds ANT_COUNT.
C19_CounterBalance ==
    /\ stats.found_food - stats.returned = Cardinality(Underway)
    /\ stats.returned <= stats.found_food
    /\ stats.found_food - stats.returned <= ANT_COUNT

\* after a return, one ant has arrived at FOOD and another is carrying
\* food away from NEST
C19_Witness ==
    /\ stats.returned >= 1
    /\ \E i \in Ants : ~carrying[i] /\ pos[i] = FOOD
    /\ \E i \in Ants : carrying[i] /\ pos[i] # NEST

\* ---- C20 ---------------------------------------------------------------
\* the Manhattan distance between NEST and FOOD
Distance == AbsDiff(FOOD[1], NEST[1]) + AbsDiff(FOOD[2], NEST[2])

\* C20: found_food is 0 as long as no ant has been stepped Distance times,
\* and returned is 0 as long as no ant has been stepped 2 * Distance + 1
\* times; in particular at the start of a tick, after fewer than Distance
\* (2 * Distance + 1) completed ticks.
C20_EarliestEvents ==
    /\ Distance >= 1
    /\ (\A i \in Ants : stepped[i] < Distance) => stats.found_food = 0
    /\ (\A i \in Ants : stepped[i] < 2 * Distance + 1) => stats.returned = 0
    /\ (idx = 0 /\ tick < Distance) => stats.found_food = 0
    /\ (idx = 0 /\ tick < 2 * Distance + 1) => stats.returned = 0

\* on a grid with FOOD two cells from NEST, a return is counted in the
\* first tick the bound allows
C20_Witness ==
    /\ Distance >= 2
    /\ tick = 2 * Distance /\ idx > 0
    /\ stats.returned >= 1
    /\ \A i \in Ants : stepped[i] <= 2 * Distance + 1
====
